---- MODULE Spec2Model ----
(***************************************************************************)
(* A model of the EDID decoder of rust-edid (src/src/edid.rs and           *)
(* src/src/extension.rs).                                                  *)
(*                                                                         *)
(* The decoder is a composition of nom parser combinators over a byte      *)
(* slice.  A slice is modelled as a window [lo, hi) into the input buffer  *)
(* `data` (offsets are 0-based, data[k + 1] is the byte at offset k).  A   *)
(* parser is an operator taking the buffer and a slice and giving a        *)
(* result record                                                           *)
(*     [tag, rest, val, err]                                               *)
(* with tag "Ok" (rest = the slice after the consumed bytes, val = the     *)
(* decoded value), "Error" (err = the VerboseError stack, innermost        *)
(* first, of [pos, kind] entries), "Incomplete" (nom's Err::Incomplete,    *)
(* produced by the streaming parsers extension.rs imports) or "Panic"      *)
(* (the thread aborts: slice index out of range, arithmetic overflow in a  *)
(* build with overflow checks).                                            *)
(*                                                                         *)
(* edid.rs imports nom's `complete` byte and number parsers, extension.rs  *)
(* the `streaming` ones: on too short an input the former give             *)
(* Err::Error, the latter Err::Incomplete.  many0 ends successfully only   *)
(* on Err::Error of its inner parser and passes every other failure on.    *)
(***************************************************************************)
EXTENDS Integers, Sequences, FiniteSets, TLC

\* ---------------------------------------------------------------------
\* Fixed-width integer helpers (u8 / u16 arithmetic of the source)
\* ---------------------------------------------------------------------
RECURSIVE Pow2(_)
Pow2(n) == IF n = 0 THEN 1 ELSE 2 * Pow2(n - 1)

Shr(x, n) == x \div Pow2(n)

Shl16(x, n) == (x * Pow2(n)) % 65536

AsU8(x) == x % 256

RECURSIVE BitAnd(_, _)
BitAnd(a, b) ==
    IF a = 0 \/ b = 0 THEN 0
    ELSE (IF a % 2 = 1 /\ b % 2 = 1 THEN 1 ELSE 0) + 2 * BitAnd(a \div 2, b \div 2)

RECURSIVE BitOr(_, _)
BitOr(a, b) ==
    IF a = 0 THEN b
    ELSE IF b = 0 THEN a
    ELSE (IF a % 2 = 1 \/ b % 2 = 1 THEN 1 ELSE 0) + 2 * BitOr(a \div 2, b \div 2)

\* ---------------------------------------------------------------------
\* Slices and parser results
\* ---------------------------------------------------------------------
Slice(lo, hi) == [lo |-> lo, hi |-> hi]

SLen(s) == s.hi - s.lo

Whole(d) == Slice(0, Len(d))

At(d, s, k) == d[s.lo + k + 1]

Bytes(d, s) == [k \in 1..SLen(s) |-> d[s.lo + k]]

NoSlice == Slice(0, 0)

Ok(rest, val) == [tag |-> "Ok", rest |-> rest, val |-> val, err |-> <<>>]

Error(s, kind) ==
    [tag |-> "Error", rest |-> NoSlice, val |-> <<>>,
     err |-> <<[pos |-> s.lo, kind |-> kind]>>]

Incomplete == [tag |-> "Incomplete", rest |-> NoSlice, val |-> <<>>, err |-> <<>>]

Panic(what) ==
    [tag |-> "Panic", rest |-> NoSlice, val |-> <<>>,
     err |-> <<[pos |-> 0, kind |-> what]>>]

\* nom's ParseError::append / VerboseError::add_context: push an entry on
\* the error stack of an Err::Error; every other result passes unchanged.
Push(s, kind, r) ==
    IF r.tag = "Error"
    THEN [r EXCEPT !.err = Append(@, [pos |-> s.lo, kind |-> kind])]
    ELSE r

\* ---------------------------------------------------------------------
\* nom primitives, complete flavour (edid.rs)
\* ---------------------------------------------------------------------
complete_le_u8(d, s) ==
    IF SLen(s) < 1 THEN Error(s, "Eof")
    ELSE Ok(Slice(s.lo + 1, s.hi), At(d, s, 0))

complete_take(n, d, s) ==
    IF SLen(s) < n THEN Error(s, "Eof")
    ELSE Ok(Slice(s.lo + n, s.hi), Slice(s.lo, s.lo + n))

complete_tag(lit, d, s) ==
    IF SLen(s) >= Len(lit)
       /\ \A k \in DOMAIN lit : At(d, s, k - 1) = lit[k]
    THEN Ok(Slice(s.lo + Len(lit), s.hi),
            Slice(s.lo, s.lo + Len(lit)))
    ELSE Error(s, "Tag")

be_u16(d, s) ==
    IF SLen(s) < 2 THEN Error(s, "Eof")
    ELSE Ok(Slice(s.lo + 2, s.hi), At(d, s, 0) * 256 + At(d, s, 1))

le_u16(d, s) ==
    IF SLen(s) < 2 THEN Error(s, "Eof")
    ELSE Ok(Slice(s.lo + 2, s.hi), At(d, s, 0) + At(d, s, 1) * 256)

le_u32(d, s) ==
    IF SLen(s) < 4 THEN Error(s, "Eof")
    ELSE Ok(Slice(s.lo + 4, s.hi),
            At(d, s, 0) + At(d, s, 1) * 256 + At(d, s, 2) * 65536
                + At(d, s, 3) * 16777216)

\* ---------------------------------------------------------------------
\* nom primitives, streaming flavour (extension.rs)
\* ---------------------------------------------------------------------
streaming_le_u8(d, s) ==
    IF SLen(s) < 1 THEN Incomplete
    ELSE Ok(Slice(s.lo + 1, s.hi), At(d, s, 0))

streaming_take(n, d, s) ==
    IF SLen(s) < n THEN Incomplete
    ELSE Ok(Slice(s.lo + n, s.hi), Slice(s.lo, s.lo + n))

\* streaming tag: a mismatch within the bytes present is an Error, a
\* matching but too short input is Incomplete.
streaming_tag(lit, d, s) ==
    LET n == Len(lit)
        m == IF SLen(s) < n THEN SLen(s) ELSE n
    IN  IF \E k \in 1..m : At(d, s, k - 1) # lit[k] THEN Error(s, "Tag")
        ELSE IF SLen(s) < n THEN Incomplete
        ELSE Ok(Slice(s.lo + n, s.hi), Slice(s.lo, s.lo + n))

\* not(p): succeeds without consuming iff p gives Err::Error.
not(r, s) ==
    IF r.tag = "Ok" THEN Error(s, "Not")
    ELSE IF r.tag = "Error" THEN Ok(s, <<>>)
    ELSE r

\* peek(p): p's value, nothing consumed.
peek(r, s) == IF r.tag = "Ok" THEN Ok(s, r.val) ELSE r

\* context(label, p)
context(label, s, r) == Push(s, label, r)

\* ---------------------------------------------------------------------
\* edid.rs: header, display and the unparsed sections
\* ---------------------------------------------------------------------
\* a variant that leaves the first letter unmasked
parse_vendor_unmasked(v) ==
    LET mask == 31
        i0 == 65 - 1
    IN  << AsU8(Shr(v, 10)) + i0,
           BitAnd(AsU8(Shr(v, 5)), mask) + i0,
           BitAnd(AsU8(Shr(v, 0)), mask) + i0 >>

parse_vendor(v) ==
    LET mask == 31
        i0 == 65 - 1
    IN  << BitAnd(AsU8(Shr(v, 10)), mask) + i0,
           BitAnd(AsU8(Shr(v, 5)), mask) + i0,
           BitAnd(AsU8(Shr(v, 0)), mask) + i0 >>

Magic == <<0, 255, 255, 255, 255, 255, 255, 0>>

\* k consecutive le_u8 of a tuple: the values in order, or the failure of
\* the first one that finds the input empty.
tuple_le_u8(k, d, s) ==
    IF SLen(s) < k THEN Error(Slice(s.hi, s.hi), "Eof")
    ELSE Ok(Slice(s.lo + k, s.hi), [i \in 1..k |-> At(d, s, i - 1)])

parse_header_magic_short(d, s) ==
    LET r0 == complete_tag(SubSeq(Magic, 1, 7), d, s)
        r1 == complete_le_u8(d, r0.rest)
        r2 == be_u16(d, r1.rest)
        r3 == le_u16(d, r2.rest)
        r4 == le_u32(d, r3.rest)
        r5 == tuple_le_u8(4, d, r4.rest)
    IN  IF r0.tag # "Ok" THEN r0
        ELSE IF r1.tag # "Ok" THEN r1
        ELSE IF r2.tag # "Ok" THEN r2
        ELSE IF r3.tag # "Ok" THEN r3
        ELSE IF r4.tag # "Ok" THEN r4
        ELSE IF r5.tag # "Ok" THEN r5
        ELSE Ok(r5.rest,
                [vendor |-> parse_vendor(r2.val), product |-> r3.val,
                 serial |-> r4.val, week |-> r5.val[1], year |-> r5.val[2],
                 version |-> r5.val[3], revision |-> r5.val[4]])

parse_header(d, s) ==
    LET r0 == complete_tag(Magic, d, s)
        r1 == be_u16(d, r0.rest)
        r2 == le_u16(d, r1.rest)
        r3 == le_u32(d, r2.rest)
        r4 == tuple_le_u8(4, d, r3.rest)
        r5 == complete_take(0, d, r4.rest)
    IN  IF r0.tag # "Ok" THEN r0
        ELSE IF r1.tag # "Ok" THEN r1
        ELSE IF r2.tag # "Ok" THEN r2
        ELSE IF r3.tag # "Ok" THEN r3
        ELSE IF r4.tag # "Ok" THEN r4
        ELSE IF r5.tag # "Ok" THEN r5
        ELSE Ok(r5.rest,
                [vendor |-> parse_vendor(r1.val), product |-> r2.val,
                 serial |-> r3.val, week |-> r4.val[1], year |-> r4.val[2],
                 version |-> r4.val[3], revision |-> r4.val[4]])

parse_display(d, s) ==
    LET r == tuple_le_u8(5, d, s)
    IN  IF r.tag # "Ok" THEN r
        ELSE Ok(r.rest,
                [video_input |-> r.val[1], width |-> r.val[2],
                 height |-> r.val[3], gamma |-> r.val[4],
                 features |-> r.val[5]])

Unit(r) == IF r.tag = "Ok" THEN Ok(r.rest, <<>>) ELSE r

parse_chromaticity(d, s) == Unit(complete_take(10, d, s))

parse_established_timing(d, s) == Unit(complete_take(3, d, s))

parse_standard_timing(d, s) == Unit(complete_take(16, d, s))

\* ---------------------------------------------------------------------
\* edid.rs: descriptor text
\* ---------------------------------------------------------------------
\* The code-page table: the character of byte b, kept as the pair of the
\* table's name and the byte (the table is total and deterministic).
cp437_forward(b) == <<"cp437", b>>

IsWhitespace(c) == c = cp437_forward(32)

RECURSIVE TrimStart(_)
TrimStart(str) ==
    IF str # <<>> /\ IsWhitespace(Head(str)) THEN TrimStart(Tail(str)) ELSE str

RECURSIVE TrimEnd(_)
TrimEnd(str) ==
    IF str # <<>> /\ IsWhitespace(str[Len(str)])
    THEN TrimEnd(SubSeq(str, 1, Len(str) - 1))
    ELSE str

Trim(str) == TrimEnd(TrimStart(str))

parse_descriptor_text(d, s) ==
    LET r == complete_take(13, d, s)
        b == Bytes(d, r.val)
        kept == SelectSeq(b, LAMBDA c : c # 10)
    IN  IF r.tag # "Ok" THEN r
        ELSE Ok(r.rest, Trim([k \in 1..Len(kept) |-> cp437_forward(kept[k])]))

\* ---------------------------------------------------------------------
\* edid.rs: detailed timing
\* ---------------------------------------------------------------------
\* a variant of the closure that takes both fields of a pair from the
\* upper nibble
DetailedTimingOf_upper_nibble(pixel_clock_10khz, b) ==
    [pixel_clock |-> pixel_clock_10khz * 10,
     horizontal_active_pixels |-> BitOr(b[1], Shl16(Shr(b[3], 4), 8)),
     horizontal_blanking_pixels |-> BitOr(b[2], Shl16(Shr(b[3], 4), 8)),
     vertical_active_lines |-> BitOr(b[4], Shl16(Shr(b[6], 4), 8)),
     vertical_blanking_lines |-> BitOr(b[5], Shl16(Shr(b[6], 4), 8)),
     horizontal_front_porch |-> BitOr(b[7], Shl16(Shr(b[10], 6), 8)),
     horizontal_sync_width |-> BitOr(b[8], Shl16(BitAnd(Shr(b[10], 4), 3), 8)),
     vertical_front_porch |->
        BitOr(Shr(b[9], 4), Shl16(BitAnd(Shr(b[10], 2), 3), 8)),
     vertical_sync_width |-> BitOr(BitAnd(b[9], 15), Shl16(BitAnd(b[10], 3), 8)),
     horizontal_size |-> BitOr(b[11], Shl16(Shr(b[13], 4), 8)),
     vertical_size |-> BitOr(b[12], Shl16(Shr(b[13], 4), 8)),
     horizontal_border_pixels |-> b[14],
     vertical_border_pixels |-> b[15],
     features |-> b[16]]

DetailedTimingOf(pixel_clock_10khz, b) ==
    LET horizontal_active_lo == b[1]
        horizontal_blanking_lo == b[2]
        horizontal_px_hi == b[3]
        vertical_active_lo == b[4]
        vertical_blanking_lo == b[5]
        vertical_px_hi == b[6]
        horizontal_front_porch_lo == b[7]
        horizontal_sync_width_lo == b[8]
        vertical_lo == b[9]
        porch_sync_hi == b[10]
        horizontal_size_lo == b[11]
        vertical_size_lo == b[12]
        size_hi == b[13]
        horizontal_border == b[14]
        vertical_border == b[15]
        features == b[16]
    IN  [pixel_clock |-> pixel_clock_10khz * 10,
         horizontal_active_pixels |->
            BitOr(horizontal_active_lo, Shl16(Shr(horizontal_px_hi, 4), 8)),
         horizontal_blanking_pixels |->
            BitOr(horizontal_blanking_lo, Shl16(BitAnd(horizontal_px_hi, 15), 8)),
         vertical_active_lines |->
            BitOr(vertical_active_lo, Shl16(Shr(vertical_px_hi, 4), 8)),
         vertical_blanking_lines |->
            BitOr(vertical_blanking_lo, Shl16(BitAnd(vertical_px_hi, 15), 8)),
         horizontal_front_porch |->
            BitOr(horizontal_front_porch_lo, Shl16(Shr(porch_sync_hi, 6), 8)),
         horizontal_sync_width |->
            BitOr(horizontal_sync_width_lo,
                  Shl16(BitAnd(Shr(porch_sync_hi, 4), 3), 8)),
         vertical_front_porch |->
            BitOr(Shr(vertical_lo, 4), Shl16(BitAnd(Shr(porch_sync_hi, 2), 3), 8)),
         vertical_sync_width |->
            BitOr(BitAnd(vertical_lo, 15), Shl16(BitAnd(porch_sync_hi, 3), 8)),
         horizontal_size |-> BitOr(horizontal_size_lo, Shl16(Shr(size_hi, 4), 8)),
         vertical_size |-> BitOr(vertical_size_lo, Shl16(BitAnd(size_hi, 15), 8)),
         horizontal_border_pixels |-> horizontal_border,
         vertical_border_pixels |-> vertical_border,
         features |-> features]

parse_detailed_timing_17(d, s) ==
    LET r0 == le_u16(d, s)
        r1 == tuple_le_u8(15, d, r0.rest)
    IN  IF r0.tag # "Ok" THEN r0
        ELSE IF r1.tag # "Ok" THEN r1
        ELSE Ok(r1.rest, DetailedTimingOf(r0.val, r1.val \o <<0>>))

\* a variant that reads one byte more after the features byte
parse_detailed_timing_19(d, s) ==
    LET r0 == le_u16(d, s)
        r1 == tuple_le_u8(17, d, r0.rest)
    IN  IF r0.tag # "Ok" THEN r0
        ELSE IF r1.tag # "Ok" THEN r1
        ELSE Ok(r1.rest, DetailedTimingOf(r0.val, SubSeq(r1.val, 1, 16)))

parse_detailed_timing(d, s) ==
    LET r0 == le_u16(d, s)
        r1 == tuple_le_u8(16, d, r0.rest)
    IN  IF r0.tag # "Ok" THEN r0
        ELSE IF r1.tag # "Ok" THEN r1
        ELSE Ok(r1.rest, DetailedTimingOf(r0.val, r1.val))

\* ---------------------------------------------------------------------
\* edid.rs: the descriptor slots of the base block
\* ---------------------------------------------------------------------
Descriptor(kind, body) == [kind |-> kind, body |-> body]

DescriptorKind(discriminant) ==
    CASE discriminant = 255 -> "SerialNumber"
      [] discriminant = 254 -> "UnspecifiedText"
      [] discriminant = 253 -> "RangeLimits"
      [] discriminant = 252 -> "ProductName"
      [] discriminant = 251 -> "WhitePoint"
      [] discriminant = 250 -> "StandardTiming"
      [] discriminant = 249 -> "ColorManagement"
      [] discriminant = 248 -> "TimingCodes"
      [] discriminant = 247 -> "EstablishedTimings"
      [] discriminant = 16 -> "Dummy"
      [] OTHER -> "Unknown"

TextKinds == {"SerialNumber", "UnspecifiedText", "ProductName"}

parse_descriptor_at(skip, d, s) ==
    LET pk == peek(le_u16(d, s), s)
        r1 == complete_take(skip, d, pk.rest)
        r2 == complete_le_u8(d, r1.rest)
        r3 == complete_le_u8(d, r2.rest)
        kind == DescriptorKind(r2.val)
        txt == parse_descriptor_text(d, r3.rest)
        raw == complete_take(13, d, r3.rest)
        dt == parse_detailed_timing(d, pk.rest)
    IN  IF pk.tag # "Ok" THEN pk
        ELSE IF pk.val = 0
        THEN IF r1.tag # "Ok" THEN r1
             ELSE IF r2.tag # "Ok" THEN r2
             ELSE IF r3.tag # "Ok" THEN r3
             ELSE IF kind \in TextKinds
             THEN IF txt.tag # "Ok" THEN txt
                  ELSE Ok(txt.rest, Descriptor(kind, txt.val))
             ELSE IF raw.tag # "Ok" THEN raw
             ELSE IF kind = "Unknown"
             THEN Ok(raw.rest, Descriptor(kind, Bytes(d, raw.val)))
             ELSE Ok(raw.rest, Descriptor(kind, <<>>))
        ELSE IF dt.tag # "Ok" THEN dt
             ELSE Ok(dt.rest, Descriptor("DetailedTiming", dt.val))

parse_descriptor_skip2(d, s) == parse_descriptor_at(2, d, s)

parse_descriptor(d, s) == parse_descriptor_at(3, d, s)

\* ---------------------------------------------------------------------
\* u8 subtraction: a build with overflow checks aborts on underflow, a
\* build without them wraps modulo 256.
\* ---------------------------------------------------------------------
Builds == {"debug", "release"}

SubU8(a, c, b) ==
    IF a >= c THEN [panic |-> FALSE, val |-> a - c]
    ELSE IF b = "debug" THEN [panic |-> TRUE, val |-> 0]
    ELSE [panic |-> FALSE, val |-> a - c + 256]

\* many0 stops, successfully, when its inner parser gives Err::Error;
\* Err::Incomplete and Err::Failure are passed on to the caller.
many0_ends_on_incomplete(r) == r.tag \in {"Error", "Incomplete"}

many0_ends(r) == r.tag = "Error"

\* ---------------------------------------------------------------------
\* extension.rs: native DTDs and data-block header
\* ---------------------------------------------------------------------
NativeDTDs(v) ==
    [underscan |-> Shr(BitAnd(v, 128), 7),
     basic_audio |-> Shr(BitAnd(v, 64), 6),
     ycbcr444 |-> Shr(BitAnd(v, 32), 5),
     ycbcr422 |-> Shr(BitAnd(v, 16), 4),
     number_of_native_dtd |-> BitAnd(v, 15)]

DefaultNativeDTDs ==
    [underscan |-> 0, basic_audio |-> 0, ycbcr444 |-> 0, ycbcr422 |-> 0,
     number_of_native_dtd |-> 0]

parse_native_dtds(d, s) ==
    LET r == streaming_le_u8(d, s)
    IN  IF r.tag # "Ok" THEN r ELSE Ok(r.rest, NativeDTDs(r.val))

parse_data_block_header(d, s) ==
    LET r == streaming_le_u8(d, s)
    IN  IF r.tag # "Ok" THEN r
        ELSE Ok(r.rest, [type_tag |-> Shr(BitAnd(r.val, 224), 5),
                         len |-> BitAnd(r.val, 31)])

\* ---------------------------------------------------------------------
\* extension.rs: audio and video blocks
\* ---------------------------------------------------------------------
ShortAudioDescriptor(format_and_channels, sampling_frequences, bitrate_or_bitdepth) ==
    [audio_format |-> Shr(BitAnd(format_and_channels, 120), 3),
     number_of_channels |-> AsU8(BitAnd(format_and_channels, 7) + 1),
     sampling_frequences |-> sampling_frequences,
     audio_format_extended_code |-> Shr(BitAnd(bitrate_or_bitdepth, 248), 3),
     format_dependent_value |-> BitAnd(bitrate_or_bitdepth, 7)]

short_audio_descriptor(d, s) ==
    LET B2(r0, r1, r2) ==
            IF r2.tag # "Ok" THEN r2
            ELSE Ok(r2.rest, ShortAudioDescriptor(r0.val, r1.val, r2.val))
        B1(r0, r1) ==
            IF r1.tag # "Ok" THEN r1 ELSE B2(r0, r1, streaming_le_u8(d, r1.rest))
        B0(r0) ==
            IF r0.tag # "Ok" THEN r0 ELSE B1(r0, streaming_le_u8(d, r0.rest))
    IN  B0(streaming_le_u8(d, s))

RECURSIVE many0_audio(_, _, _)
many0_audio(d, s, acc) ==
    LET Loop(r) ==
            IF many0_ends(r) THEN Ok(s, acc)
            ELSE IF r.tag # "Ok" THEN r
            ELSE IF SLen(r.rest) = SLen(s) THEN Error(s, "Many0")
            ELSE many0_audio(d, r.rest, Append(acc, r.val))
    IN  Loop(short_audio_descriptor(d, s))

parse_audio_block(d, s) ==
    LET Descriptors(h, p, m) ==
            IF m.tag # "Ok" THEN m
            ELSE Ok(p.rest, [header |-> h.val, descriptors |-> m.val])
        Payload(h, p) ==
            IF p.tag # "Ok" THEN p
            ELSE Descriptors(h, p, many0_audio(d, p.val, <<>>))
        Header(h) ==
            IF h.tag # "Ok" THEN h
            ELSE Payload(h, streaming_take(h.val.len, d, h.rest))
    IN  context("audio data blocks", s, Header(parse_data_block_header(d, s)))

ShortVideoDescriptor(payload) ==
    [is_native |-> Shr(BitAnd(payload, 128), 7),
     cea861_index |-> BitAnd(payload, 127)]

short_video_descriptor(d, s) ==
    LET B0(r) == IF r.tag # "Ok" THEN r ELSE Ok(r.rest, ShortVideoDescriptor(r.val))
    IN  B0(streaming_le_u8(d, s))

RECURSIVE many0_video(_, _, _)
many0_video(d, s, acc) ==
    LET Loop(r) ==
            IF many0_ends(r) THEN Ok(s, acc)
            ELSE IF r.tag # "Ok" THEN r
            ELSE IF SLen(r.rest) = SLen(s) THEN Error(s, "Many0")
            ELSE many0_video(d, r.rest, Append(acc, r.val))
    IN  Loop(short_video_descriptor(d, s))

parse_video_block(d, s) ==
    LET Descriptors(h, p, m) ==
            IF m.tag # "Ok" THEN m
            ELSE Ok(p.rest, [header |-> h.val, descriptors |-> m.val])
        Payload(h, p) ==
            IF p.tag # "Ok" THEN p
            ELSE Descriptors(h, p, many0_video(d, p.val, <<>>))
        Header(h) ==
            IF h.tag # "Ok" THEN h
            ELSE Payload(h, streaming_take(h.val.len, d, h.rest))
    IN  context("video data blocks", s, Header(parse_data_block_header(d, s)))

\* ---------------------------------------------------------------------
\* extension.rs: vendor-specific, speaker-allocation and reserved blocks
\* ---------------------------------------------------------------------
\* a variant that computes header.len - 3 before it takes the identifier
parse_vendor_specific_eager(d, s, b) ==
    LET Rest(h, p, id, pl) ==
            IF pl.tag # "Ok" THEN pl
            ELSE Ok(p.rest, [header |-> h.val,
                             identifier |-> Bytes(d, id.val),
                             payload |-> Bytes(d, pl.val)])
        Identifier(h, p, n, id) ==
            IF id.tag # "Ok" THEN id
            ELSE Rest(h, p, id, streaming_take(n.val, d, id.rest))
        Length(h, p, n) ==
            IF n.panic THEN Panic("header.len - 3")
            ELSE Identifier(h, p, n, streaming_take(3, d, p.val))
        Payload(h, p) ==
            IF p.tag # "Ok" THEN p
            ELSE Length(h, p, SubU8(h.val.len, 3, b))
        Header(h) ==
            IF h.tag # "Ok" THEN h
            ELSE Payload(h, streaming_take(h.val.len, d, h.rest))
    IN  context("vendor specific data block", s,
                Header(parse_data_block_header(d, s)))

parse_vendor_specific(d, s, b) ==
    LET Rest(h, p, id, pl) ==
            IF pl.tag # "Ok" THEN pl
            ELSE Ok(p.rest, [header |-> h.val,
                             identifier |-> Bytes(d, id.val),
                             payload |-> Bytes(d, pl.val)])
        Length(h, p, id, n) ==
            IF n.panic THEN Panic("header.len - 3")
            ELSE Rest(h, p, id, streaming_take(n.val, d, id.rest))
        Identifier(h, p, id) ==
            IF id.tag # "Ok" THEN id
            ELSE Length(h, p, id, SubU8(h.val.len, 3, b))
        Payload(h, p) ==
            IF p.tag # "Ok" THEN p
            ELSE Identifier(h, p, streaming_take(3, d, p.val))
        Header(h) ==
            IF h.tag # "Ok" THEN h
            ELSE Payload(h, streaming_take(h.val.len, d, h.rest))
    IN  context("vendor specific data block", s,
                Header(parse_data_block_header(d, s)))

parse_speaker_allocation(d, s) ==
    LET Reserved(h, p, sp, rs) ==
            IF rs.tag # "Ok" THEN rs
            ELSE Ok(p.rest, [header |-> h.val,
                             speakers |-> At(d, sp.val, 0),
                             reserved |-> Bytes(d, rs.val)])
        Speakers(h, p, sp) ==
            IF sp.tag # "Ok" THEN sp
            ELSE Reserved(h, p, sp, streaming_take(2, d, sp.rest))
        Payload(h, p) ==
            IF p.tag # "Ok" THEN p
            ELSE Speakers(h, p, streaming_take(1, d, p.val))
        Header(h) ==
            IF h.tag # "Ok" THEN h
            ELSE Payload(h, streaming_take(h.val.len, d, h.rest))
    IN  context("speaker allocation data block", s,
                Header(parse_data_block_header(d, s)))

\* a variant that takes the payload from the header byte on
parse_data_block_reserved_from_header(d, s) ==
    LET Payload(h, p) ==
            IF p.tag # "Ok" THEN p
            ELSE Ok(h.rest, [header |-> h.val, payload |-> Bytes(d, p.val)])
        Header(h) ==
            IF h.tag # "Ok" THEN h
            ELSE Payload(h, streaming_take(h.val.len, d, s))
    IN  Header(parse_data_block_header(d, s))

parse_data_block_reserved(d, s) ==
    LET Payload(h, p) ==
            IF p.tag # "Ok" THEN p
            ELSE Ok(p.rest, [header |-> h.val, payload |-> Bytes(d, p.val)])
        Header(h) ==
            IF h.tag # "Ok" THEN h
            ELSE Payload(h, streaming_take(h.val.len, d, h.rest))
    IN  Header(parse_data_block_header(d, s))

DataBlock(kind, r) ==
    IF r.tag = "Ok" THEN Ok(r.rest, [kind |-> kind, block |-> r.val]) ELSE r

parse_data_block(d, s, b) ==
    LET Dispatch(pk) ==
            IF pk.tag # "Ok" THEN pk
            ELSE CASE pk.val.type_tag = 1 ->
                        DataBlock("AudioBlock", parse_audio_block(d, pk.rest))
                   [] pk.val.type_tag = 2 ->
                        DataBlock("VideoBlock", parse_video_block(d, pk.rest))
                   [] pk.val.type_tag = 3 ->
                        DataBlock("VendorSpecific",
                                  parse_vendor_specific(d, pk.rest, b))
                   [] pk.val.type_tag = 4 ->
                        DataBlock("SpeakerAllocation",
                                  parse_speaker_allocation(d, pk.rest))
                   [] OTHER ->
                        DataBlock("Reserved", parse_data_block_reserved(d, pk.rest))
    IN  Dispatch(peek(parse_data_block_header(d, s), s))

RECURSIVE many0_data_block(_, _, _, _)
many0_data_block(d, s, b, acc) ==
    LET Loop(r) ==
            IF many0_ends(r) THEN Ok(s, acc)
            ELSE IF r.tag # "Ok" THEN r
            ELSE IF SLen(r.rest) = SLen(s) THEN Error(s, "Many0")
            ELSE many0_data_block(d, r.rest, b, Append(acc, r.val))
    IN  Loop(parse_data_block(d, s, b))

parse_blocks(d, s, b) == many0_data_block(d, s, b, <<>>)

\* ---------------------------------------------------------------------
\* extension.rs: trailing detailed timings and the extension block
\* ---------------------------------------------------------------------
timing_record(d, s) ==
    LET Unwrap(t, dt) ==
            IF dt.tag # "Ok" THEN Panic("unwrap") ELSE Ok(t.rest, dt.val)
        Record(t) ==
            IF t.tag # "Ok" THEN t ELSE Unwrap(t, parse_detailed_timing(d, t.val))
        Sentinel(n) ==
            IF n.tag # "Ok" THEN n ELSE Record(streaming_take(18, d, s))
    IN  Sentinel(peek(not(streaming_tag(<<0, 0>>, d, s), s), s))

RECURSIVE many0_timing(_, _, _)
many0_timing(d, s, acc) ==
    LET Loop(r) ==
            IF many0_ends(r) THEN Ok(s, acc)
            ELSE IF r.tag # "Ok" THEN r
            ELSE IF SLen(r.rest) = SLen(s) THEN Error(s, "Many0")
            ELSE many0_timing(d, r.rest, Append(acc, r.val))
    IN  Loop(timing_record(d, s))

parse_descriptors(d, s) == many0_timing(d, s, <<>>)

CtaExtensions(extension_tag, reserved, native_dtd, blocks, descriptors) ==
    [extension_tag |-> extension_tag, reserved |-> reserved,
     native_dtd |-> native_dtd, blocks |-> blocks, descriptors |-> descriptors]

\* the three leading bytes: extension tag, reserved, dtd_flag
extension_header(d, s) ==
    LET B2(h0, h1, h2) ==
            IF h2.tag # "Ok" THEN h2
            ELSE Ok(h2.rest, [extension_tag |-> h0.val, reserved |-> h1.val,
                              dtd_flag |-> h2.val])
        B1(h0, h1) ==
            IF h1.tag # "Ok" THEN h1 ELSE B2(h0, h1, streaming_le_u8(d, h1.rest))
        B0(h0) ==
            IF h0.tag # "Ok" THEN h0 ELSE B1(h0, streaming_le_u8(d, h0.rest))
    IN  B0(streaming_le_u8(d, s))

parse_extension(d, s, b) ==
    LET Checksum(h, nat, blocks, timings, ck) ==
            IF ck.tag # "Ok" THEN ck
            ELSE Ok(ck.rest,
                    CtaExtensions(h.val.extension_tag, h.val.reserved, nat.val,
                                  blocks.val, timings.val))
        Descriptors(h, nat, blocks, td, timings) ==
            IF timings.tag # "Ok" THEN timings
            ELSE Checksum(h, nat, blocks, timings, streaming_le_u8(d, td.rest))
        TimingData(h, nat, blocks, td) ==
            IF td.tag # "Ok" THEN td
            ELSE Descriptors(h, nat, blocks, td, parse_descriptors(d, td.val))
        TimingLength(h, nat, ed, blocks, tl) ==
            IF tl.panic THEN Panic("input.len() as u8 - 1")
            ELSE TimingData(h, nat, blocks, streaming_take(tl.val, d, ed.rest))
        Blocks(h, nat, ed, blocks) ==
            IF blocks.tag # "Ok" THEN blocks
            ELSE TimingLength(h, nat, ed, blocks, SubU8(AsU8(SLen(ed.rest)), 1, b))
        ExtensionData(h, nat, ed) ==
            IF ed.tag # "Ok" THEN ed
            ELSE Blocks(h, nat, ed, parse_blocks(d, ed.val, b))
        SpanLength(h, nat, span) ==
            IF span.panic THEN Panic("dtd_flag - 4")
            ELSE ExtensionData(h, nat, streaming_take(span.val, d, nat.rest))
        Native(h, nat) ==
            IF nat.tag # "Ok" THEN nat
            ELSE SpanLength(h, nat, SubU8(h.val.dtd_flag, 4, b))
        Header(h) ==
            IF h.tag # "Ok" THEN h
            ELSE IF h.val.dtd_flag = 0
            THEN IF SLen(h.rest) < 128 THEN Panic("&input[128..]")
                 ELSE Ok(Slice(h.rest.lo + 128, h.rest.hi),
                         CtaExtensions(h.val.extension_tag, h.val.reserved,
                                       DefaultNativeDTDs, <<>>, <<>>))
            ELSE Native(h, parse_native_dtds(d, h.rest))
    IN  Header(extension_header(d, s))

\* ---------------------------------------------------------------------
\* edid.rs: parse_edid as a sequence of stages
\* ---------------------------------------------------------------------
VARIABLES data, build, pc, input, edid, result

vars == <<data, build, pc, input, edid, result>>

\* Option<T>: None is the empty sequence, Some(x) the one-element one.
None == <<>>

Some(x) == <<x>>

NoEDID ==
    [header |-> None, display |-> None, descriptors |-> <<>>,
     number_of_extensions |-> None, extensions |-> None]

NoResult == [tag |-> "None", rest |-> NoSlice, val |-> <<>>, err |-> <<>>]

Machine(p, i, e, r) == [pc |-> p, input |-> i, edid |-> e, result |-> r]

Start(d) == Machine("header", Whole(d), NoEDID, NoResult)

Fail(st, r) == Machine("done", st.input, st.edid, r)

DescriptorCount == 4

CountStart(st) == Slice(st.input.lo - 18 * Len(st.edid.descriptors), st.input.hi)

StageHeader(d, st) ==
    LET r == parse_header(d, st.input)
    IN  IF r.tag # "Ok" THEN Fail(st, r)
        ELSE Machine("display", r.rest,
                     [st.edid EXCEPT !.header = Some(r.val)], st.result)

StageDisplay(d, st) ==
    LET r == parse_display(d, st.input)
    IN  IF r.tag # "Ok" THEN Fail(st, r)
        ELSE Machine("chromaticity", r.rest,
                     [st.edid EXCEPT !.display = Some(r.val)], st.result)

StageChromaticity(d, st) ==
    LET r == parse_chromaticity(d, st.input)
    IN  IF r.tag # "Ok" THEN Fail(st, r)
        ELSE Machine("established_timing", r.rest, st.edid, st.result)

StageEstablishedTiming(d, st) ==
    LET r == parse_established_timing(d, st.input)
    IN  IF r.tag # "Ok" THEN Fail(st, r)
        ELSE Machine("standard_timing", r.rest, st.edid, st.result)

StageStandardTiming(d, st) ==
    LET r == parse_standard_timing(d, st.input)
    IN  IF r.tag # "Ok" THEN Fail(st, r)
        ELSE Machine("descriptors", r.rest, st.edid, st.result)

\* one iteration of count(parse_descriptor, 4)
StageDescriptor(d, st) ==
    LET r == parse_descriptor(d, st.input)
        e == [st.edid EXCEPT !.descriptors = Append(@, r.val)]
    IN  IF r.tag # "Ok" THEN Fail(st, Push(CountStart(st), "Count", r))
        ELSE Machine(IF Len(e.descriptors) = DescriptorCount
                     THEN "number_of_extensions" ELSE "descriptors",
                     r.rest, e, st.result)

StageNumberOfExtensions(d, st) ==
    LET r == complete_le_u8(d, st.input)
    IN  IF r.tag # "Ok" THEN Fail(st, r)
        ELSE Machine("checksum", r.rest,
                     [st.edid EXCEPT !.number_of_extensions = Some(r.val)],
                     st.result)

\* the sum modulo 256 of the bytes at offsets lo .. hi - 1
RECURSIVE SumBytes(_, _, _)
SumBytes(d, lo, hi) ==
    IF hi <= lo THEN 0
    ELSE IF hi = lo + 1 THEN d[lo + 1]
    ELSE (SumBytes(d, lo, (lo + hi) \div 2) + SumBytes(d, (lo + hi) \div 2, hi)) % 256

\* the base-block checksum byte: read, never looked at
parse_checksum_verified(d, s) ==
    LET Verify(r) ==
            IF r.tag # "Ok" THEN r
            ELSE IF SumBytes(d, r.rest.lo - 128, r.rest.lo) # 0
            THEN Error(s, "Verify")
            ELSE r
    IN  Verify(complete_le_u8(d, s))

parse_checksum(d, s) == complete_le_u8(d, s)

StageChecksum(d, st) ==
    LET r == parse_checksum(d, st.input)
    IN  IF r.tag # "Ok" THEN Fail(st, r)
        ELSE Machine("extensions", r.rest, st.edid, st.result)

EDID(e) ==
    [header |-> e.header[1], display |-> e.display[1],
     descriptors |-> e.descriptors, extensions |-> e.extensions]

StageReturnBase(d, st) ==
    Machine("done", st.input, st.edid, Ok(st.input, EDID(st.edid)))

StageExtension(d, b, st) ==
    LET Some_(r) ==
            IF r.tag # "Ok" THEN Fail(st, r)
            ELSE Machine("done", r.rest,
                         [st.edid EXCEPT !.extensions = Some(r.val)],
                         Ok(r.rest, EDID([st.edid EXCEPT !.extensions = Some(r.val)])))
    IN  Some_(parse_extension(d, st.input, b))

Stage(d, b, st) ==
    CASE st.pc = "header" -> StageHeader(d, st)
      [] st.pc = "display" -> StageDisplay(d, st)
      [] st.pc = "chromaticity" -> StageChromaticity(d, st)
      [] st.pc = "established_timing" -> StageEstablishedTiming(d, st)
      [] st.pc = "standard_timing" -> StageStandardTiming(d, st)
      [] st.pc = "descriptors" -> StageDescriptor(d, st)
      [] st.pc = "number_of_extensions" -> StageNumberOfExtensions(d, st)
      [] st.pc = "checksum" -> StageChecksum(d, st)
      [] st.pc = "extensions" ->
            IF st.edid.number_of_extensions[1] = 0
            THEN StageReturnBase(d, st)
            ELSE StageExtension(d, b, st)

RECURSIVE Run(_, _, _)
Run(d, b, st) == IF st.pc = "done" THEN st ELSE Run(d, b, Stage(d, b, st))

parse_edid(d, b) == Run(d, b, Start(d)).result

parse(d, b) == parse_edid(d, b)

\* ---------------------------------------------------------------------
\* Input buffers
\* ---------------------------------------------------------------------
\* Bounds of the input families.
MaxTrailing == 2

MaxTimings == 2

MaxExtra == 1

Byte == 0..255

Zeros(n) == [k \in 1..n |-> 0]

\* n filler bytes, none of them zero
Fill(n, seed) == [k \in 1..n |-> 1 + ((seed + 7 * k) % 255)]

RECURSIVE Flatten(_)
Flatten(ss) == IF ss = <<>> THEN <<>> ELSE Head(ss) \o Flatten(Tail(ss))

\* vendor "SAM", product 596, serial 1146106418, week 27, year 17, 1.3
HeaderBytes == <<76, 45, 84, 2, 50, 50, 80, 68, 27, 17, 1, 3>>

DisplayBytes == <<14, 47, 30, 120, 42>>

\* an 18-byte detailed timing whose first two bytes are b0, b1
TimingSlot(b0, b1) ==
    <<b0, b1, 144, 48, 98, 26, 39, 64, 104, 176, 54, 0, 218, 40, 17, 0, 0, 28>>

\* an 18-byte monitor descriptor with the given discriminant
MonitorSlot(disc) ==
    <<0, 0, (disc + 1) % 256, disc, (disc + 2) % 256>>
        \o <<32, 83, 121, 110, 99, 10, 32>> \o Fill(5, disc) \o <<32>>

DefaultSlots ==
    <<TimingSlot(33, 57), MonitorSlot(253), MonitorSlot(252), MonitorSlot(255)>>

BaseBlock(slots, next, ck) ==
    Magic \o HeaderBytes \o DisplayBytes \o Fill(10, 1) \o Fill(3, 2)
        \o Fill(16, 3) \o Flatten(slots) \o <<next, ck>>

CkVals == {0, 90}

\* family 1: every discriminant, and every way of the first two bytes
\* being zero or not, in one of the four slots; no extension.
SlotVariants ==
    {MonitorSlot(disc) : disc \in Byte}
        \cup {[MonitorSlot(disc) EXCEPT ![1] = p[1], ![2] = p[2]] :
                disc \in {0, 252, 255}, p \in {<<1, 0>>, <<0, 1>>, <<255, 255>>}}
        \cup {TimingSlot(p[1], p[2]) : p \in {<<0, 0>>, <<1, 0>>, <<0, 1>>}}

SlotInputs ==
    {BaseBlock([DefaultSlots EXCEPT ![1 + (v[4] % 4)] = v], 0, ck) \o Fill(n, 9) :
        v \in SlotVariants, ck \in CkVals, n \in 0..MaxTrailing}

\* family 2: the default base block cut short, or with one magic byte
\* changed.
DefaultBase == BaseBlock(DefaultSlots, 0, 90)

TruncatedInputs == {SubSeq(DefaultBase, 1, n) : n \in 0..127}

MagicInputs ==
    {[DefaultBase \o Fill(n, 9) EXCEPT ![i] = (Magic[i] + x) % 256] :
        i \in 1..8, x \in {1, 255}, n \in {0, MaxTrailing}}

\* family 3: a base block declaring extensions, followed by extension bytes.
Block(type_tag, len, payload) == <<type_tag * 32 + len>> \o payload

HdmiSpan ==
    Block(2, 12, <<144, 5, 4, 3, 2, 7, 22, 1, 20, 31, 18, 19>>)
        \o Block(1, 3, <<9, 7, 7>>)
        \o Block(3, 5, <<3, 12, 0, 16, 0>>)
        \o Block(4, 3, <<1, 0, 0>>)

\* data-block spans every block of which has its declared payload and, for
\* vendor-specific and speaker-allocation blocks, at least 3 payload bytes
GoodSpans ==
    {<<>>, HdmiSpan,
     Block(0, 2, <<7, 8>>), Block(7, 0, <<>>), Block(5, 31, Fill(31, 4)),
     Block(3, 3, <<3, 12, 0>>), Block(3, 5, <<3, 12, 0, 16, 0>>),
     Block(4, 3, <<1, 0, 0>>), Block(4, 4, <<1, 0, 0, 9>>),
     Block(1, 3, <<9, 7, 7>>), Block(1, 4, <<9, 7, 7, 1>>), Block(1, 0, <<>>),
     Block(2, 2, <<144, 5>>), Block(2, 0, <<>>),
     Block(3, 5, <<3, 12, 0, 16, 0>>) \o Block(4, 3, <<1, 0, 0>>),
     Block(6, 1, <<5>>) \o Block(0, 0, <<>>) \o Block(3, 4, <<3, 12, 0, 16>>)}

\* spans with a block that cannot be decoded
BadSpans ==
    {Block(3, 2, <<3, 12>>), Block(3, 0, <<>>), Block(4, 1, <<1>>),
     Block(4, 2, <<1, 0>>),
     Block(0, 5, <<7, 8>>), Block(3, 9, <<3, 12, 0, 16>>),
     Block(6, 1, <<5>>) \o Block(3, 2, <<3, 12>>),
     Block(3, 3, <<3, 12, 0>>) \o Block(4, 2, <<1, 0>>),
     Block(0, 1, <<7>>) \o Block(5, 31, <<1, 2, 3>>)}

Timings(k) == Flatten([i \in 1..k |-> TimingSlot(1 + i, 29 * i)])

\* a 128-byte extension block: tag, revision, dtd_flag = 4 + span length,
\* native DTDs, the span, k timings, zero padding, checksum
ExtensionBlock(span, k, ck) ==
    <<2, 3, 4 + Len(span), 241>> \o span \o Timings(k)
        \o Zeros(128 - 5 - Len(span) - 18 * k) \o <<ck>>

WellFormedExtensions ==
    {ExtensionBlock(span, k, ck) : span \in GoodSpans, k \in 0..MaxTimings, ck \in CkVals}

BadSpanExtensions == {ExtensionBlock(span, 1, 90) : span \in BadSpans}

\* extension bytes that end early, or whose trailing part has 0 or 256
\* bytes, or whose dtd_flag is below 4
OddExtensions ==
    {Fill(n, 5) : n \in 0..2}
        \cup {<<2, 3, 0>> \o Fill(n, 5) : n \in {0, 1, 125, 127, 128, 128 + MaxExtra}}
        \cup UNION {{<<2, 3, f>> \o Fill(n, 5) : n \in {0, 1, 125, 253 + f}} : f \in 1..3}
        \cup {SubSeq(ExtensionBlock(HdmiSpan, 1, 90), 1, n) : n \in {3, 4, 10, 31, 32, 50, 127}}
        \cup {<<2, 3, 4 + Len(span), 241>> \o span \o Zeros(n) :
                span \in {<<>>, Block(3, 3, <<3, 12, 0>>)}, n \in {0, 1, 256, 257}}
        \cup {ExtensionBlock(HdmiSpan, 4, 90) \o Fill(n, 5) : n \in 0..MaxExtra}
        \cup {ExtensionBlock(<<>>, 1, 90) \o ExtensionBlock(<<>>, 0, 90)}

ExtensionInputs ==
    {BaseBlock(DefaultSlots, next, 90) \o x :
        next \in {1, 2, 255},
        x \in WellFormedExtensions \cup BadSpanExtensions \cup OddExtensions}

Inputs == SlotInputs \cup TruncatedInputs \cup MagicInputs \cup ExtensionInputs

\* ---------------------------------------------------------------------
\* The decoder run on one buffer
\* ---------------------------------------------------------------------
Cur == Machine(pc, input, edid, result)

Set(st) ==
    /\ pc' = st.pc
    /\ input' = st.input
    /\ edid' = st.edid
    /\ result' = st.result
    /\ UNCHANGED <<data, build>>

Init ==
    /\ data \in Inputs
    /\ build \in Builds
    /\ pc = "header"
    /\ input = Whole(data)
    /\ edid = NoEDID
    /\ result = NoResult

ParseHeader == pc = "header" /\ Set(StageHeader(data, Cur))

ParseDisplay == pc = "display" /\ Set(StageDisplay(data, Cur))

ParseChromaticity == pc = "chromaticity" /\ Set(StageChromaticity(data, Cur))

ParseEstablishedTiming ==
    pc = "established_timing" /\ Set(StageEstablishedTiming(data, Cur))

ParseStandardTiming == pc = "standard_timing" /\ Set(StageStandardTiming(data, Cur))

ParseDescriptor == pc = "descriptors" /\ Set(StageDescriptor(data, Cur))

ParseNumberOfExtensions ==
    pc = "number_of_extensions" /\ Set(StageNumberOfExtensions(data, Cur))

ParseChecksum == pc = "checksum" /\ Set(StageChecksum(data, Cur))

ReturnBase ==
    /\ pc = "extensions"
    /\ edid.number_of_extensions[1] = 0
    /\ Set(StageReturnBase(data, Cur))

ParseExtension ==
    /\ pc = "extensions"
    /\ edid.number_of_extensions[1] # 0
    /\ Set(StageExtension(data, build, Cur))

Next ==
    \/ ParseHeader
    \/ ParseDisplay
    \/ ParseChromaticity
    \/ ParseEstablishedTiming
    \/ ParseStandardTiming
    \/ ParseDescriptor
    \/ ParseNumberOfExtensions
    \/ ParseChecksum
    \/ ReturnBase
    \/ ParseExtension

Spec == Init /\ [][Next]_vars

\* ---------------------------------------------------------------------
\* The data-block decoder applied to one block
\* ---------------------------------------------------------------------
\* a header byte followed by n payload bytes, n around the declared length
BlockInputs ==
    UNION {{<<hb>> \o Fill(n, hb) :
                n \in {k \in 0..(31 + MaxExtra) :
                          k >= (hb % 32) - 1 /\ k <= (hb % 32) + MaxExtra}} :
            hb \in Byte}

BlockInit ==
    /\ data \in BlockInputs
    /\ build \in Builds
    /\ pc = "data_block"
    /\ input = Whole(data)
    /\ edid = NoEDID
    /\ result = NoResult

DecodeDataBlock ==
    /\ pc = "data_block"
    /\ result' = parse_data_block(data, input, build)
    /\ input' = IF result'.tag = "Ok" THEN result'.rest ELSE input
    /\ pc' = "done"
    /\ UNCHANGED <<data, build, edid>>

BlockNext == DecodeDataBlock

SpecBlock == BlockInit /\ [][BlockNext]_vars

\* ---------------------------------------------------------------------
\* Properties
\* ---------------------------------------------------------------------
Done == pc = "done"

ByteAt(d, off) == d[off + 1]

HasMagic(d) == Len(d) >= 8 /\ SubSeq(d, 1, 8) = Magic

\* the buffer holds a whole base block with the magic in front
HasBase(d) == HasMagic(d) /\ Len(d) >= 128

\* C1: for every input buffer parse returns Ok or a structured Err and
\* never aborts (no out-of-range slice, no integer underflow abort).
C1_NeverAborts == Done => result.tag \in {"Ok", "Error", "Incomplete"}

\* C2: a buffer whose first 8 bytes are not the magic literal (shorter
\* buffers included) fails with the error of the magic-literal stage, at
\* offset 0, and no field of the record is decoded.
C2_MagicMismatch ==
    ~HasMagic(data) =>
        /\ pc \in {"header", "done"}
        /\ edid = NoEDID
        /\ Done => /\ result.tag = "Error"
                   /\ result.err = <<[pos |-> 0, kind |-> "Tag"]>>

C2_Witness ==
    /\ Done
    /\ Len(data) >= 128
    /\ SubSeq(data, 1, 7) = SubSeq(Magic, 1, 7)
    /\ data[8] # Magic[8]
    /\ result.tag = "Error"

\* well-formed single-extension inputs: a base block with extension count
\* 1 and one 128-byte extension block with dtd_flag >= 4, its data blocks
\* filling the span, then timings, zero padding and a checksum byte
WellFormedSingleExtension(d) ==
    /\ HasBase(d)
    /\ Len(d) = 256
    /\ ByteAt(d, 126) = 1
    /\ SubSeq(d, 129, 256) \in WellFormedExtensions

\* C3: a well-formed single-extension input is parsed successfully and
\* fully consumed (no unconsumed trailing bytes).
C3_FullyConsumed ==
    (Done /\ WellFormedSingleExtension(data)) =>
        /\ result.tag = "Ok"
        /\ SLen(result.rest) = 0

\* the extension's data-block span [lo, hi) of a buffer whose base block is
\* valid, declares an extension, and whose dtd_flag is at least 4
HasSpan(d) ==
    /\ HasBase(d)
    /\ ByteAt(d, 126) # 0
    /\ Len(d) >= 132
    /\ ByteAt(d, 130) >= 4
    /\ Len(d) >= 132 + (ByteAt(d, 130) - 4)

SpanLo == 128 + 4

SpanHi(d) == 132 + (ByteAt(d, 130) - 4)

\* some block of the span cannot be decoded: its header declares more bytes
\* than remain in the span, or it is a vendor-specific or
\* speaker-allocation block with fewer than 3 payload bytes
RECURSIVE SpanUndecodable(_, _, _)
SpanUndecodable(d, lo, hi) ==
    IF lo >= hi THEN FALSE
    ELSE IF lo + 1 + (ByteAt(d, lo) % 32) > hi THEN TRUE
    ELSE IF (ByteAt(d, lo) \div 32) \in {3, 4} /\ (ByteAt(d, lo) % 32) < 3 THEN TRUE
    ELSE SpanUndecodable(d, lo + 1 + (ByteAt(d, lo) % 32), hi)

RECURSIVE BlocksLength(_)
BlocksLength(bs) ==
    IF bs = <<>> THEN 0 ELSE 1 + Head(bs).block.header.len + BlocksLength(Tail(bs))

\* C4: when a data block of the span cannot be decoded, parse fails; an Ok
\* record never holds a truncated prefix of the span's blocks.
C4_NoPartialRecord ==
    (Done /\ HasSpan(data)) =>
        /\ SpanUndecodable(data, SpanLo, SpanHi(data)) => result.tag # "Ok"
        /\ result.tag = "Ok" =>
              BlocksLength(result.val.extensions[1].blocks)
                  = SpanHi(data) - SpanLo

C4_Witness ==
    /\ Done
    /\ HasSpan(data)
    /\ Len(data) = 256
    /\ SpanUndecodable(data, SpanLo, SpanHi(data))
    /\ result.tag = "Incomplete"

\* C5: a data block whose header declares L payload bytes, with at least L
\* bytes available, is decoded and advances the cursor by exactly 1 + L,
\* whatever its type tag.
C5_AdvancesByDeclaredLength ==
    (Done /\ Len(data) - 1 >= data[1] % 32) =>
        /\ result.tag = "Ok"
        /\ result.rest.lo = 1 + (data[1] % 32)

\* C6: an audio block of declared length L decodes into floor(L / 3) short
\* audio descriptors, a video block of length L into L short video
\* descriptors; a trailing L mod 3 bytes are dropped and are no error.
C6_PartialItemsDropped ==
    (Done /\ Len(data) - 1 >= data[1] % 32) =>
        /\ data[1] \div 32 = 1 =>
              /\ result.tag = "Ok"
              /\ Len(result.val.block.descriptors) = (data[1] % 32) \div 3
        /\ data[1] \div 32 = 2 =>
              /\ result.tag = "Ok"
              /\ Len(result.val.block.descriptors) = data[1] % 32

\* C7: with a valid base block declaring an extension and dtd_flag = 0,
\* parse returns an extension with all-zero NativeDTDs, no data blocks and
\* no timings, the cursor 128 bytes past the three extension header bytes.
C7_DtdFlagZero ==
    (Done /\ HasBase(data) /\ ByteAt(data, 126) # 0 /\ Len(data) >= 131
          /\ ByteAt(data, 130) = 0) =>
        /\ result.tag = "Ok"
        /\ result.val.extensions[1].native_dtd = DefaultNativeDTDs
        /\ result.val.extensions[1].blocks = <<>>
        /\ result.val.extensions[1].descriptors = <<>>
        /\ result.rest.lo = 131 + 128

\* the buffer with its base-block checksum byte (offset 127) set to c1 and
\* its extension checksum byte, the last byte of a buffer that reaches
\* past the extension's three leading bytes, set to c2
WithChecksums(d, c1, c2) ==
    [k \in 1..Len(d) |->
        IF k = 128 THEN c1
        ELSE IF k = Len(d) /\ Len(d) > 131 THEN c2
        ELSE d[k]]

\* the checksum byte that makes the first 128 bytes sum to 0 modulo 256
ValidChecksum(d) == (256 - SumBytes(d, 0, 127)) % 256

\* C8: buffers that differ only in the base-block checksum byte and the
\* final extension checksum byte have the same outcome: the same failure,
\* or the same record and the same unconsumed bytes.
C8_ChecksumIndependence ==
    (Done /\ Len(data) >= 128) =>
        \A c1 \in CkVals \cup {ValidChecksum(data)}, c2 \in CkVals :
            parse(WithChecksums(data, c1, c2), build) = result

C8_Witness ==
    /\ Done
    /\ Len(data) >= 256
    /\ result.tag = "Ok"
    /\ edid.extensions # None
    /\ ByteAt(data, 127) # ValidChecksum(data)

\* the kind the discriminant byte selects
ClaimedKind(disc) ==
    CASE disc = 255 -> "SerialNumber"
      [] disc = 254 -> "UnspecifiedText"
      [] disc = 253 -> "RangeLimits"
      [] disc = 252 -> "ProductName"
      [] disc = 251 -> "WhitePoint"
      [] disc = 250 -> "StandardTiming"
      [] disc = 249 -> "ColorManagement"
      [] disc = 248 -> "TimingCodes"
      [] disc = 247 -> "EstablishedTimings"
      [] disc = 16 -> "Dummy"
      [] OTHER -> "Unknown"

SlotOffset(i) == 54 + 18 * (i - 1)

\* C9: a slot decodes as DetailedTiming iff its first two bytes are not
\* both zero; otherwise the byte at slot offset 3 selects the kind, and
\* any other value gives Unknown with slot bytes 5..17, never an error.
C9_DescriptorDispatch ==
    /\ \A i \in 1..Len(edid.descriptors) :
        LET off == SlotOffset(i)
            desc == edid.descriptors[i]
            zero == ByteAt(data, off) = 0 /\ ByteAt(data, off + 1) = 0
        IN  /\ desc.kind = "DetailedTiming" <=> ~zero
            /\ zero => desc.kind = ClaimedKind(ByteAt(data, off + 3))
            /\ desc.kind = "Unknown" =>
                  desc.body = [k \in 1..13 |-> ByteAt(data, off + 4 + k)]
    /\ (Done /\ HasMagic(data) /\ Len(data) >= 126) => Len(edid.descriptors) = 4

C9_Witness ==
    /\ Done
    /\ \E i \in 1..Len(edid.descriptors) :
          /\ edid.descriptors[i].kind = "Unknown"
          /\ ByteAt(data, SlotOffset(i) + 3) = 17
    /\ \E i \in 1..Len(edid.descriptors) :
          /\ edid.descriptors[i].kind = "DetailedTiming"
          /\ ByteAt(data, SlotOffset(i)) # 0

\* C10: with a valid magic, at least 128 bytes and extension count 0,
\* parse succeeds with exactly 4 descriptors and no extension; every slot
\* takes exactly 18 bytes and the unconsumed slice is the input from
\* offset 128 on.
C10_BaseOnly ==
    (HasBase(data) /\ ByteAt(data, 126) = 0) =>
        /\ pc = "descriptors" => input.lo = 54 + 18 * Len(edid.descriptors)
        /\ pc = "number_of_extensions" => input.lo = 126
        /\ Done => /\ result.tag = "Ok"
                   /\ Len(result.val.descriptors) = 4
                   /\ result.val.extensions = None
                   /\ result.rest = Slice(128, Len(data))

C10_Witness ==
    /\ Done
    /\ HasBase(data)
    /\ ByteAt(data, 126) = 0
    /\ Len(data) > 128
    /\ result.tag = "Ok"
    /\ \E i \in 1..4 : result.val.descriptors[i].kind = "Unknown"

\* C11: a data block whose type tag is 0, 5, 6 or 7, with its L declared
\* payload bytes available, is never an error: it decodes to a Reserved
\* block whose header carries the tag and L and whose payload is exactly
\* the L payload bytes in order.
C11_ReservedVerbatim ==
    (Done /\ data[1] \div 32 \notin {1, 2, 3, 4}
          /\ Len(data) - 1 >= data[1] % 32) =>
        /\ result.tag = "Ok"
        /\ result.val.kind = "Reserved"
        /\ result.val.block.header
              = [type_tag |-> data[1] \div 32, len |-> data[1] % 32]
        /\ result.val.block.payload = SubSeq(data, 2, 1 + (data[1] % 32))

C11_Witness ==
    /\ Done
    /\ data[1] \div 32 = 5
    /\ data[1] % 32 = 31
    /\ Len(data) > 32
    /\ result.tag = "Ok"
    /\ result.val.kind = "Reserved"
    /\ Len(result.val.block.payload) = 31

\* the offset of the first block of the span [lo, hi) that cannot be
\* decoded (declared length beyond the span, or a vendor-specific or
\* speaker-allocation payload under 3 bytes), or -1
RECURSIVE FirstUndecodable(_, _, _)
FirstUndecodable(d, lo, hi) ==
    IF lo >= hi THEN -1
    ELSE IF lo + 1 + (ByteAt(d, lo) % 32) > hi THEN lo
    ELSE IF (ByteAt(d, lo) \div 32) \in {3, 4} /\ (ByteAt(d, lo) % 32) < 3 THEN lo
    ELSE FirstUndecodable(d, lo + 1 + (ByteAt(d, lo) % 32), hi)

StageLabel(type_tag) ==
    CASE type_tag = 1 -> "audio data blocks"
      [] type_tag = 2 -> "video data blocks"
      [] type_tag = 3 -> "vendor specific data block"
      [] type_tag = 4 -> "speaker allocation data block"
      [] OTHER -> "none"

\* C12: when decoding fails inside an audio, video, vendor-specific or
\* speaker-allocation data block, the failure returned by parse carries
\* the label of that block's stage together with the block's position.
C12_ContextLabels ==
    (Done /\ HasSpan(data)
          /\ FirstUndecodable(data, SpanLo, SpanHi(data)) # -1
          /\ ByteAt(data, FirstUndecodable(data, SpanLo, SpanHi(data))) \div 32
                \in {1, 2, 3, 4}) =>
        LET at == FirstUndecodable(data, SpanLo, SpanHi(data))
        IN  /\ result.tag = "Error"
            /\ \E k \in 1..Len(result.err) :
                  /\ result.err[k].kind = StageLabel(ByteAt(data, at) \div 32)
                  /\ result.err[k].pos = at

\* ---------------------------------------------------------------------
\* The vendor code decoder applied to every 16-bit code
\* ---------------------------------------------------------------------
VendorInputs == {<<hi, lo>> : hi \in Byte, lo \in Byte}

VendorInit ==
    /\ data \in VendorInputs
    /\ build \in Builds
    /\ pc = "vendor"
    /\ input = Whole(data)
    /\ edid = NoEDID
    /\ result = NoResult

\* map(be_u16, parse_vendor)
DecodeVendor ==
    /\ pc = "vendor"
    /\ result' = LET r == be_u16(data, input)
                 IN  IF r.tag # "Ok" THEN r ELSE Ok(r.rest, parse_vendor(r.val))
    /\ input' = IF result'.tag = "Ok" THEN result'.rest ELSE input
    /\ pc' = "done"
    /\ UNCHANGED <<data, build, edid>>

VendorNext == DecodeVendor

SpecVendor == VendorInit /\ [][VendorNext]_vars

\* the 5-bit value at bit position shift of the code in the buffer
VendorCode(d) == d[1] * 256 + d[2]

FiveBits(v, shift) == (v \div Pow2(shift)) % 32

\* C13: for every 16-bit vendor code v each letter is
\* ((v >> shift) & 0x1F) + 64 for shifts 10, 5, 0; 5-bit values 1..26 map
\* one-to-one onto 'A'..'Z' (65..90), the values 0 and 27..31 give a fixed
\* character outside 'A'..'Z' with no failure or overflow, and bit 15 of v
\* never affects the result.
C13_VendorLetters ==
    Done =>
        LET v == VendorCode(data)
            shifts == <<10, 5, 0>>
        IN  /\ result.tag = "Ok"
            /\ Len(result.val) = 3
            /\ \A i \in 1..3 :
                  LET n == FiveBits(v, shifts[i])
                      c == result.val[i]
                  IN  /\ c = n + 64
                      /\ c \in 0..255
                      /\ c - 64 = n
                      /\ n \in 1..26 <=> c \in 65..90
                      /\ c = FiveBits(v % 32768, shifts[i]) + 64

C13_Witness ==
    /\ Done
    /\ VendorCode(data) >= 32768
    /\ FiveBits(VendorCode(data), 5) = 0
    /\ FiveBits(VendorCode(data), 0) = 31
    /\ result.val = <<83, 64, 95>>

\* ---------------------------------------------------------------------
\* The detailed-timing decoder applied to one record
\* ---------------------------------------------------------------------
\* buffer positions (from 1) of the two low bytes and the shared nibble
\* byte of the horizontal, vertical and size pairs
PairOffsets == <<<<3, 4, 5>>, <<6, 7, 8>>, <<13, 14, 15>>>>

\* the record with one pair taking every low byte and every nibble byte
NibbleInputs(record) ==
    {[record EXCEPT ![PairOffsets[p][1]] = lo,
                ![PairOffsets[p][2]] = 255 - lo,
                ![PairOffsets[p][3]] = nb] :
        p \in 1..3, lo \in Byte, nb \in Byte}

\* a record cut short, exact, or followed by further bytes
LengthInputs ==
    {SubSeq(TimingSlot(33, 57), 1, n) : n \in 0..18}
        \cup {TimingSlot(33, 57) \o Fill(n, 5) : n \in 1..(MaxExtra + 18)}

TimingInit ==
    /\ data \in NibbleInputs(TimingSlot(33, 57)) \cup LengthInputs
    /\ build \in Builds
    /\ pc = "detailed_timing"
    /\ input = Whole(data)
    /\ edid = NoEDID
    /\ result = NoResult

DecodeDetailedTiming ==
    /\ pc = "detailed_timing"
    /\ result' = parse_detailed_timing(data, input)
    /\ input' = IF result'.tag = "Ok" THEN result'.rest ELSE input
    /\ pc' = "done"
    /\ UNCHANGED <<data, build, edid>>

TimingNext == DecodeDetailedTiming

SpecTiming == TimingInit /\ [][TimingNext]_vars

\* the 12-bit fields of a decoded record, pair by pair: upper-nibble
\* field, lower-nibble field
PairFields(t) ==
    <<<<t.horizontal_active_pixels, t.horizontal_blanking_pixels>>,
      <<t.vertical_active_lines, t.vertical_blanking_lines>>,
      <<t.horizontal_size, t.vertical_size>>>>

\* C14: each of the six 12-bit fields equals lo | (hi << 8) for its low
\* byte and its nibble, lies in 0..4095, and determines (lo, hi); of the
\* two fields sharing a nibble byte the first takes the upper nibble and
\* the second the lower one, neither influencing the other.
C14_TwelveBitFields ==
    (Done /\ Len(data) >= 18) =>
        /\ result.tag = "Ok"
        /\ \A p \in 1..3 :
              LET lo_a == data[PairOffsets[p][1]]
                  lo_b == data[PairOffsets[p][2]]
                  nb == data[PairOffsets[p][3]]
                  a == PairFields(result.val)[p][1]
                  b == PairFields(result.val)[p][2]
              IN  /\ a = lo_a + 256 * (nb \div 16)
                  /\ b = lo_b + 256 * (nb % 16)
                  /\ a \in 0..4095 /\ b \in 0..4095
                  /\ a % 256 = lo_a /\ a \div 256 = nb \div 16
                  /\ b % 256 = lo_b /\ b \div 256 = nb % 16

C14_Witness ==
    /\ Done
    /\ Len(data) >= 18
    /\ data[3] = 255 /\ data[4] = 0 /\ data[5] = 240
    /\ result.tag = "Ok"
    /\ result.val.horizontal_active_pixels = 4095
    /\ result.val.horizontal_blanking_pixels = 0

\* C16 as stated: each invocation of the detailed-timing decoder consumes
\* exactly 17 bytes of input (a 2-byte pixel clock plus 15 further bytes).
C16_Consumes17 ==
    (Done /\ Len(data) >= 17) =>
        /\ result.tag = "Ok"
        /\ result.rest.lo = 17

\* C16: each invocation of the detailed-timing decoder consumes exactly 18
\* bytes of input (a 2-byte pixel clock plus 16 further bytes, the last of
\* them the features byte), on an 18-byte slice as on a longer buffer, and
\* fails on fewer than 18 bytes.
C16_Consumes18 ==
    Done =>
        /\ Len(data) >= 18 =>
              /\ result.tag = "Ok"
              /\ result.rest = Slice(18, Len(data))
              /\ input = result.rest
              /\ result.val.pixel_clock = (data[1] + 256 * data[2]) * 10
              /\ result.val.features = data[18]
        /\ Len(data) < 18 => result.tag = "Error"

C16_Witness ==
    /\ Done
    /\ Len(data) > 18
    /\ result.tag = "Ok"
    /\ SLen(result.rest) = Len(data) - 18
    /\ result.val.features = 28

\* ---------------------------------------------------------------------
\* The trailing-timing decoder applied to a timing span
\* ---------------------------------------------------------------------
\* what follows the records of a span: nothing, the two-zero sentinel with
\* or without padding, a lone byte, a cut record, records after a sentinel
SpanTails ==
    {Zeros(n) : n \in 0..(2 + MaxTrailing)}
        \cup {Fill(n, 5) : n \in {1, 2, 17}}
        \cup {<<0>> \o Fill(n, 5) : n \in {1, 16, 17}}
        \cup {<<7, 0>>, <<7, 0>> \o Zeros(16), <<7, 0>> \o Zeros(18)}
        \cup {<<0, 0>> \o Timings(1), <<0, 0>> \o Fill(MaxTrailing, 5)}

TimingSpans == {Timings(k) \o tail : k \in 0..MaxTimings, tail \in SpanTails}

DescriptorsInit ==
    /\ data \in TimingSpans
    /\ build \in Builds
    /\ pc = "descriptors"
    /\ input = Whole(data)
    /\ edid = NoEDID
    /\ result = NoResult

DecodeDescriptors ==
    /\ pc = "descriptors"
    /\ result' = parse_descriptors(data, input)
    /\ input' = IF result'.tag = "Ok" THEN result'.rest ELSE input
    /\ pc' = "done"
    /\ UNCHANGED <<data, build, edid>>

DescriptorsNext == DecodeDescriptors

SpecDescriptors == DescriptorsInit /\ [][DescriptorsNext]_vars

\* a record position holding the two-zero sentinel
SentinelAt(d, lo) == lo + 2 <= Len(d) /\ ByteAt(d, lo) = 0 /\ ByteAt(d, lo + 1) = 0

\* the number of complete 18-byte records before the first sentinel
\* position, or before the end of the span
RECURSIVE RecordsBeforeSentinel(_, _)
RecordsBeforeSentinel(d, lo) ==
    IF SentinelAt(d, lo) THEN 0
    ELSE IF lo + 18 > Len(d) THEN 0
    ELSE 1 + RecordsBeforeSentinel(d, lo + 18)

\* C15: the number of DetailedTiming records returned for a timing span
\* equals the number of complete 18-byte records before the first record
\* position whose first two bytes are both zero, or before the end of the
\* span; the sentinel and the end of the span both end the sequence
\* successfully, and bytes after the sentinel are ignored.
C15_TimingCount ==
    Done =>
        /\ result.tag = "Ok"
        /\ Len(result.val) = RecordsBeforeSentinel(data, 0)

\* C17: a vendor-specific block (tag 3) with declared length L >= 3 and L
\* payload bytes available has the first 3 payload bytes as identifier and
\* exactly the remaining L - 3 bytes, in order, as payload; with L < 3 the
\* block is a decode failure and L - 3 is never computed (no underflow
\* abort, no wrapped length).
C17_VendorSpecific ==
    (Done /\ data[1] \div 32 = 3) =>
        LET L == data[1] % 32
        IN  /\ (L >= 3 /\ Len(data) - 1 >= L) =>
                  /\ result.tag = "Ok"
                  /\ result.val.kind = "VendorSpecific"
                  /\ result.val.block.identifier = SubSeq(data, 2, 4)
                  /\ result.val.block.payload = SubSeq(data, 5, 1 + L)
                  /\ Len(result.val.block.payload) = L - 3
                  /\ result.rest.lo = 1 + L
            /\ L < 3 => result.tag \in {"Error", "Incomplete"}

C17_Witness ==
    /\ Done
    /\ data[1] \div 32 = 3
    /\ data[1] % 32 = 31
    /\ Len(data) > 32
    /\ result.tag = "Ok"
    /\ Len(result.val.block.payload) = 28
    /\ result.val.block.identifier = SubSeq(data, 2, 4)

\* ---------------------------------------------------------------------
\* Termination
\* ---------------------------------------------------------------------
\* the positions of parse_edid
Positions ==
    {"header", "display", "chromaticity", "established_timing",
     "standard_timing", "descriptors", "number_of_extensions", "checksum",
     "extensions", "done"}

\* control leaves the position it is at
Advance == pc # "done" /\ pc' \in Positions

\* parse is one sequential call: until it has returned, control keeps
\* moving on.  (Next is enabled exactly when pc is not "done", and the one
\* loop, count(parse_descriptor, 4), leaves its position after at most
\* four steps, so this is the weak fairness of Next.)
SpecFair == Spec /\ WF_pc(Advance)

\* C18: decoding terminates on every finite input; every loop advances by
\* at least one byte per successful iteration, and parse always reaches a
\* success or a failure result.
C18_Terminates == <>(Done /\ result.tag \in {"Ok", "Error", "Incomplete"})

====
